---- MODULE Spec2Model ----
(***************************************************************************)
(* Model of the header encoder of mail-common (src/src/encoder/mod.rs):    *)
(* the Encoder's section list and the EncodeHandle, the line folding       *)
(* write cursor over the last text section.                                *)
(*                                                                         *)
(* A buffer is a sequence of bytes (0..255), a char is a Unicode scalar    *)
(* value, a str is a sequence of chars.  Offsets into the buffer are the   *)
(* 0-based byte offsets of the Rust code; the byte at offset i of buffer b *)
(* is b[i + 1].                                                            *)
(***************************************************************************)
EXTENDS Integers, Sequences, FiniteSets, TLC

VARIABLES
    traceing,       \* the build has the feature "traceing"
    mail_type,      \* Encoder::mail_type
    sections,       \* Encoder::sections
    handle,         \* the EncodeHandle borrowed from the encoder, if any
    panicked,       \* the thread unwound from a panic
    result,         \* what the last call returned
    out,            \* the bytes or sections the last call returned, if any
    added,          \* the bodies given to add_body so far, in their order
    leaked,         \* a handle was released with unfinished parts
    call,           \* the last call made: [op, arg]
    pre_buf,        \* content of the buffer when the last call was made
    pre_skipped_cr, \* a "\r" was held back when the last call was made
    boundary_buf,   \* content of the buffer at the last header boundary
    progress,       \* "created", "finished", "undone": how the current header
                    \* began, or "written" once a write call was made in it
    budget          \* number of write calls the run may still make

vars == <<traceing, mail_type, sections, handle, panicked, result, out, added,
          leaked,
          call, pre_buf, pre_skipped_cr, boundary_buf, progress, budget>>

----------------------------------------------------------------------------
(* Bounds of the model.                                                    *)

\* write calls made through the handle in one run of Spec
MaxWrites == 3

\* write calls made through the handle in one run of SpecHard
MaxHardWrites == 3

\* write calls made through the handle in one run of SpecCond
MaxCondWrites == 3

\* calls that add to the sections in one run of SpecEnc
MaxEncOps == 2

\* chars of the longest name given to HeaderName::new in SpecName
MaxNameLen == 3

----------------------------------------------------------------------------
(* Constants of the program.                                               *)

LINE_LEN_SOFT_LIMIT == 78
LINE_LEN_HARD_LIMIT == 998

CR == 13
LF == 10
SP == 32
TAB == 9

MailTypes == {"Ascii", "Mime8BitEnabled", "Internationalized"}

is_internationalized(mt) == mt = "Internationalized"

----------------------------------------------------------------------------
(* Strings and the std String operations the handle uses.                  *)

\* String::push(ch): the UTF-8 encoding of ch is appended
Utf8(ch) ==
    IF ch < 128 THEN <<ch>>
    ELSE IF ch < 2048 THEN <<192 + (ch \div 64), 128 + (ch % 64)>>
    ELSE IF ch < 65536
        THEN <<224 + (ch \div 4096), 128 + ((ch \div 64) % 64), 128 + (ch % 64)>>
    ELSE <<240 + (ch \div 262144), 128 + ((ch \div 4096) % 64),
           128 + ((ch \div 64) % 64), 128 + (ch % 64)>>

\* String::truncate(new_len): no effect if new_len is not below the length
truncate(buf, new_len) ==
    IF new_len < Len(buf) THEN SubSeq(buf, 1, new_len) ELSE buf

\* String::insert_str(idx, string)
insert_str(buf, idx, string) ==
    SubSeq(buf, 1, idx) \o string \o SubSeq(buf, idx + 1, Len(buf))

----------------------------------------------------------------------------
(* EncodeHandle.  A handle value e carries the buffer it borrows.          *)

new(mt, buffer) ==
    [ buffer             |-> buffer,
      mail_type          |-> mt,
      line_start_idx     |-> Len(buffer),
      last_fws_idx       |-> Len(buffer),
      skipped_cr         |-> FALSE,
      content_since_fws  |-> FALSE,
      content_before_fws |-> FALSE,
      header_start_idx   |-> Len(buffer) ]

\* reinit that resets the indices only
reinit_keeps_flags(e) ==
    [ e EXCEPT !.line_start_idx     = Len(e.buffer),
               !.last_fws_idx       = Len(e.buffer),
               !.header_start_idx   = Len(e.buffer) ]

\* reinit without the new header start
reinit_keeps_header_start(e) ==
    [ e EXCEPT !.line_start_idx     = Len(e.buffer),
               !.last_fws_idx       = Len(e.buffer),
               !.skipped_cr         = FALSE,
               !.content_since_fws  = FALSE,
               !.content_before_fws = FALSE ]

reinit(e) ==
    [ e EXCEPT !.line_start_idx     = Len(e.buffer),
               !.last_fws_idx       = Len(e.buffer),
               !.skipped_cr         = FALSE,
               !.content_since_fws  = FALSE,
               !.content_before_fws = FALSE,
               !.header_start_idx   = Len(e.buffer) ]

\* has_unfinished_parts that looks at the current line only
has_unfinished_parts_of_line(e) == Len(e.buffer) # e.line_start_idx

has_unfinished_parts(e) == Len(e.buffer) # e.header_start_idx

\* line_has_content that forgets the content before the fold point
line_has_content_since_fws(e) == e.content_since_fws

line_has_content(e) == e.content_before_fws \/ e.content_since_fws

current_line_byte_length(e) == Len(e.buffer) - e.line_start_idx

mark_fws_pos(e) ==
    [ e EXCEPT !.content_before_fws = e.content_before_fws \/ e.content_since_fws,
               !.content_since_fws  = FALSE,
               !.last_fws_idx       = Len(e.buffer) ]

\* start_new_line that ends a line with "\n" alone
start_new_line_bare_lf(e) ==
    LET buf == IF line_has_content(e)
               THEN Append(e.buffer, LF)
               ELSE truncate(e.buffer, e.line_start_idx)
    IN  [ e EXCEPT !.buffer             = buf,
                   !.line_start_idx     = Len(buf),
                   !.content_since_fws  = FALSE,
                   !.content_before_fws = FALSE,
                   !.last_fws_idx       = Len(buf) ]

\* start_new_line that leaves a line without content as it is
start_new_line_keeps_blank(e) ==
    LET buf == IF line_has_content(e)
               THEN Append(Append(e.buffer, CR), LF)
               ELSE e.buffer
    IN  [ e EXCEPT !.buffer             = buf,
                   !.line_start_idx     = Len(buf),
                   !.content_since_fws  = FALSE,
                   !.content_before_fws = FALSE,
                   !.last_fws_idx       = Len(buf) ]

\* start_new_line that ends the line whether it has content or not
start_new_line_always(e) ==
    LET buf == Append(Append(e.buffer, CR), LF)
    IN  [ e EXCEPT !.buffer             = buf,
                   !.line_start_idx     = Len(buf),
                   !.content_since_fws  = FALSE,
                   !.content_before_fws = FALSE,
                   !.last_fws_idx       = Len(buf) ]

start_new_line(e) ==
    LET buf == IF line_has_content(e)
               THEN Append(Append(e.buffer, CR), LF)
               ELSE truncate(e.buffer, e.line_start_idx)
    IN  [ e EXCEPT !.buffer             = buf,
                   !.line_start_idx     = Len(buf),
                   !.content_since_fws  = FALSE,
                   !.content_before_fws = FALSE,
                   !.last_fws_idx       = Len(buf) ]

\* break_line_on_fws that folds at a fold point it has used before
break_line_on_fws_reuses_point(e) ==
    IF e.content_before_fws
    THEN IF e.last_fws_idx >= Len(e.buffer)
         THEN [e |-> e, broke |-> FALSE, panic |-> TRUE]
         ELSE LET newline == IF e.buffer[e.last_fws_idx + 1] \in {SP, TAB}
                             THEN <<CR, LF>>
                             ELSE <<CR, LF, SP>>
              IN  [ e |-> [ e EXCEPT
                              !.buffer = insert_str(e.buffer, e.last_fws_idx, newline),
                              !.line_start_idx = e.last_fws_idx + 2 ],
                    broke |-> TRUE, panic |-> FALSE ]
    ELSE [e |-> e, broke |-> FALSE, panic |-> FALSE]

\* break_line_on_fws that starts the new line after the space it inserted
break_line_on_fws_line_after_space(e) ==
    IF e.content_before_fws /\ e.last_fws_idx > e.line_start_idx
    THEN IF e.last_fws_idx >= Len(e.buffer)
         THEN [e |-> e, broke |-> FALSE, panic |-> TRUE]
         ELSE LET newline == IF e.buffer[e.last_fws_idx + 1] \in {SP, TAB}
                             THEN <<CR, LF>>
                             ELSE <<CR, LF, SP>>
              IN  [ e |-> [ e EXCEPT
                              !.buffer = insert_str(e.buffer, e.last_fws_idx, newline),
                              !.line_start_idx = e.last_fws_idx + Len(newline),
                              !.content_before_fws = FALSE ],
                    broke |-> TRUE, panic |-> FALSE ]
    ELSE [e |-> e, broke |-> FALSE, panic |-> FALSE]

\* break_line_on_fws that inserts "\r\n " whatever is at the fold point
break_line_on_fws_always_space(e) ==
    IF e.content_before_fws /\ e.last_fws_idx > e.line_start_idx
    THEN IF e.last_fws_idx >= Len(e.buffer)
         THEN [e |-> e, broke |-> FALSE, panic |-> TRUE]
         ELSE [ e |-> [ e EXCEPT
                          !.buffer = insert_str(e.buffer, e.last_fws_idx,
                                                <<CR, LF, SP>>),
                          !.line_start_idx = e.last_fws_idx + 2,
                          !.content_before_fws = FALSE ],
                broke |-> TRUE, panic |-> FALSE ]
    ELSE [e |-> e, broke |-> FALSE, panic |-> FALSE]

\* break_line_on_fws that does not ask for content before the fold point
break_line_on_fws_without_content(e) ==
    IF e.last_fws_idx > e.line_start_idx
    THEN IF e.last_fws_idx >= Len(e.buffer)
         THEN [e |-> e, broke |-> FALSE, panic |-> TRUE]
         ELSE LET newline == IF e.buffer[e.last_fws_idx + 1] \in {SP, TAB}
                             THEN <<CR, LF>>
                             ELSE <<CR, LF, SP>>
              IN  [ e |-> [ e EXCEPT
                              !.buffer = insert_str(e.buffer, e.last_fws_idx, newline),
                              !.line_start_idx = e.last_fws_idx + 2,
                              !.content_before_fws = FALSE ],
                    broke |-> TRUE, panic |-> FALSE ]
    ELSE [e |-> e, broke |-> FALSE, panic |-> FALSE]

\* returns [e, broke, panic]; panic: the indexing at last_fws_idx was out
\* of bounds
break_line_on_fws(e) ==
    IF e.content_before_fws /\ e.last_fws_idx > e.line_start_idx
    THEN IF e.last_fws_idx >= Len(e.buffer)
         THEN [e |-> e, broke |-> FALSE, panic |-> TRUE]
         ELSE LET newline == IF e.buffer[e.last_fws_idx + 1] \in {SP, TAB}
                             THEN <<CR, LF>>
                             ELSE <<CR, LF, SP>>
              IN  [ e |-> [ e EXCEPT
                              !.buffer = insert_str(e.buffer, e.last_fws_idx, newline),
                              !.line_start_idx = e.last_fws_idx + 2,
                              !.content_before_fws = FALSE ],
                    broke |-> TRUE, panic |-> FALSE ]
    ELSE [e |-> e, broke |-> FALSE, panic |-> FALSE]

\* the push with the hard limit tested one byte late
push_limit_off_by_one(e, ch) ==
    LET over == current_line_byte_length(e) >= LINE_LEN_SOFT_LIMIT
        brk  == IF over THEN break_line_on_fws(e)
                ELSE [e |-> e, broke |-> FALSE, panic |-> FALSE]
    IN  IF brk.panic
        THEN [e |-> e, res |-> "Panic"]
        ELSE IF over /\ ~brk.broke /\ Len(e.buffer) > LINE_LEN_HARD_LIMIT
        THEN [e |-> e, res |-> "HardLineLengthLimitBreached"]
        ELSE [ e |-> [ brk.e EXCEPT
                         !.buffer = brk.e.buffer \o Utf8(ch),
                         !.content_since_fws =
                             IF ch # SP /\ ch # TAB THEN TRUE
                             ELSE brk.e.content_since_fws ],
               res |-> "Ok" ]

\* internal_write_char after its newline handling: the length limits, the
\* push and the content flag.
\* returns [e, res]; res = "Panic": the indexing in break_line_on_fws panicked
push_within_limits(e, ch) ==
    LET over == current_line_byte_length(e) >= LINE_LEN_SOFT_LIMIT
        brk  == IF over THEN break_line_on_fws(e)
                ELSE [e |-> e, broke |-> FALSE, panic |-> FALSE]
    IN  IF brk.panic
        THEN [e |-> e, res |-> "Panic"]
        ELSE IF over /\ ~brk.broke /\ Len(e.buffer) = LINE_LEN_HARD_LIMIT
        THEN [e |-> e, res |-> "HardLineLengthLimitBreached"]
        ELSE [ e |-> [ brk.e EXCEPT
                         !.buffer = brk.e.buffer \o Utf8(ch),
                         !.content_since_fws =
                             IF ch # SP /\ ch # TAB THEN TRUE
                             ELSE brk.e.content_since_fws ],
               res |-> "Ok" ]

\* internal_write_char that forgets the held back "\r" when the char after
\* it is refused
internal_write_char_forgets_cr(e, ch) ==
    IF ch = LF
    THEN IF e.skipped_cr
         THEN [e |-> [start_new_line(e) EXCEPT !.skipped_cr = FALSE], res |-> "Ok"]
         ELSE [e |-> e, res |-> "Malformed"]
    ELSE IF e.skipped_cr
    THEN [e |-> [e EXCEPT !.skipped_cr = FALSE], res |-> "Malformed"]
    ELSE IF ch = CR
    THEN [e |-> [e EXCEPT !.skipped_cr = TRUE], res |-> "Ok"]
    ELSE push_within_limits([e EXCEPT !.skipped_cr = FALSE], ch)

\* internal_write_char that takes a "\n" without a "\r" before it as a
\* line end
internal_write_char_bare_lf(e, ch) ==
    IF ch = LF
    THEN [e |-> [start_new_line(e) EXCEPT !.skipped_cr = FALSE], res |-> "Ok"]
    ELSE IF e.skipped_cr
    THEN [e |-> e, res |-> "Malformed"]
    ELSE IF ch = CR
    THEN [e |-> [e EXCEPT !.skipped_cr = TRUE], res |-> "Ok"]
    ELSE push_within_limits([e EXCEPT !.skipped_cr = FALSE], ch)

\* internal_write_char that pushes a "\r" when it sees it instead of
\* holding it back
internal_write_char_eager_cr(e, ch) ==
    IF ch = LF
    THEN IF e.skipped_cr
         THEN [e |-> [start_new_line(e) EXCEPT !.skipped_cr = FALSE], res |-> "Ok"]
         ELSE [e |-> e, res |-> "Malformed"]
    ELSE IF e.skipped_cr
    THEN [e |-> e, res |-> "Malformed"]
    ELSE IF ch = CR
    THEN [e |-> [e EXCEPT !.skipped_cr = TRUE, !.buffer = Append(e.buffer, CR)],
          res |-> "Ok"]
    ELSE push_within_limits([e EXCEPT !.skipped_cr = FALSE], ch)

\* returns [e, res]
internal_write_char(e, ch) ==
    IF ch = LF
    THEN IF e.skipped_cr
         THEN [e |-> [start_new_line(e) EXCEPT !.skipped_cr = FALSE], res |-> "Ok"]
         ELSE [e |-> e, res |-> "Malformed"]
    ELSE IF e.skipped_cr
    THEN [e |-> e, res |-> "Malformed"]
    ELSE IF ch = CR
    THEN [e |-> [e EXCEPT !.skipped_cr = TRUE], res |-> "Ok"]
    ELSE push_within_limits([e EXCEPT !.skipped_cr = FALSE], ch)

\* the loop of internal_write_str over the chars lo..hi of s, in order,
\* stopping at the first char that fails (the loop is split in halves to
\* keep the evaluation stack shallow)
RECURSIVE write_range(_, _, _, _)
write_range(e, s, lo, hi) ==
    IF lo > hi
    THEN [e |-> e, res |-> "Ok"]
    ELSE IF lo = hi
    THEN internal_write_char(e, s[lo])
    ELSE LET mid == (lo + hi) \div 2
             r   == write_range(e, s, lo, mid)
         IN  IF r.res # "Ok" THEN r ELSE write_range(r.e, s, mid + 1, hi)

\* internal_write_str that writes nothing of a str it cannot write whole
internal_write_str_all_or_nothing(e, s) ==
    IF write_range(e, s, 1, Len(s)).res = "Ok"
    THEN write_range(e, s, 1, Len(s))
    ELSE [e |-> e, res |-> write_range(e, s, 1, Len(s)).res]

internal_write_str(e, s) == write_range(e, s, 1, Len(s))

\* finish_header that does not end the line
finish_header_no_new_line(e) == reinit(e)

\* finish_header that pushes a held back "\r" before it ends the line
finish_header_pushes_skipped_cr(e) ==
    reinit(start_new_line(IF e.skipped_cr
                          THEN [e EXCEPT !.buffer = Append(e.buffer, CR)]
                          ELSE e))

finish_header(e) == reinit(start_new_line(e))

\* undo_header that leaves the buffer as it is
undo_header_keeps_buffer(e) == reinit(e)

\* undo_header that empties the buffer
undo_header_whole_buffer(e) == reinit([e EXCEPT !.buffer = <<>>])

\* undo_header that goes back to the start of the line only
undo_header_to_line_start(e) ==
    reinit([e EXCEPT !.buffer = truncate(e.buffer, e.line_start_idx)])

undo_header(e) == reinit([e EXCEPT !.buffer = truncate(e.buffer, e.header_start_idx)])

----------------------------------------------------------------------------
(* Public write operations of the handle: each returns [e, res].           *)

write_char(e, ch) == internal_write_char(e, ch)

write_str(e, s) == internal_write_str(e, s)

\* write_utf8 that lets a str of us-ascii chars pass in any mail
write_utf8_accepts_ascii(e, s) ==
    IF is_internationalized(e.mail_type) \/ \A i \in 1..Len(s) : s[i] < 128
    THEN internal_write_str(e, s)
    ELSE [e |-> e, res |-> "InvalidTextEncoding"]

write_utf8(e, s) ==
    IF is_internationalized(e.mail_type)
    THEN internal_write_str(e, s)
    ELSE [e |-> e, res |-> "InvalidTextEncoding"]

write_if_utf8(e, s) ==
    IF is_internationalized(e.mail_type)
    THEN internal_write_str(e, s)
    ELSE [e |-> e, res |-> "ConditionFailure"]

\* grammar::is_atext: atext of RFC 5322, and any non us-ascii char in an
\* internationalized mail
is_atext(ch, mt) ==
    \/ ch \in 48..57 \/ ch \in 65..90 \/ ch \in 97..122
    \/ ch \in {33, 35, 36, 37, 38, 39, 42, 43, 45, 47, 61, 63, 94, 95, 96,
               123, 124, 125, 126}
    \/ (ch >= 128 /\ is_internationalized(mt))

write_if_atext(e, s) ==
    IF \A i \in 1..Len(s) : is_atext(s[i], e.mail_type)
    THEN internal_write_str(e, s)
    ELSE [e |-> e, res |-> "ConditionFailure"]

\* cond: what the caller's condition function returned for s
write_if(e, s, cond) ==
    IF cond
    THEN internal_write_str(e, s)
    ELSE [e |-> e, res |-> "ConditionFailure"]

\* write_str_unchecked that refuses what write_utf8 refuses
write_str_unchecked_checks_mail_type(e, s) ==
    IF is_internationalized(e.mail_type) \/ \A i \in 1..Len(s) : s[i] < 128
    THEN internal_write_str(e, s)
    ELSE [e |-> e, res |-> "InvalidTextEncoding"]

write_str_unchecked(e, s) == internal_write_str(e, s)

\* ConditionalWriteResult of a call that returned r = [e, res]:
\* Ok, ConditionFailure(handle) or GeneralFailure(err), err being r.res
ConditionalWriteResult(r) ==
    IF r.res \in {"Ok", "ConditionFailure", "Panic"} THEN r.res
    ELSE "GeneralFailure"

\* the closure a caller gives to handle_condition_failure: here one that
\* writes the str t through the handle it gets
func(e, t) == write_str(e, t)

\* handle_condition_failure that runs the closure whatever the result is
handle_condition_failure_always(r, t) == func(r.e, t)

\* ConditionalWriteResult::handle_condition_failure on the result r with
\* the closure func(_, t)
handle_condition_failure(r, t) ==
    CASE ConditionalWriteResult(r) = "Ok"               -> r
      [] ConditionalWriteResult(r) = "ConditionFailure" -> func(r.e, t)
      [] OTHER                                          -> r

\* write_fws that writes the space before it marks the fold point
write_fws_space_first(e) ==
    LET r == write_char(e, SP)
    IN  [e |-> mark_fws_pos(r.e), res |-> IF r.res = "Panic" THEN "Panic" ELSE "Unit"]

\* the result of the write is dropped; a panic is not a result
write_fws(e) ==
    LET r == write_char(mark_fws_pos(e), SP)
    IN  [e |-> r.e, res |-> IF r.res = "Panic" THEN "Panic" ELSE "Unit"]

----------------------------------------------------------------------------
(* Encoder and the state machine.                                          *)

Text(string) == [kind |-> "String", data |-> string]

NoHandle == [live |-> FALSE]

\* the buffer a handle refers to: the last section
Buffer == IF sections = <<>> THEN <<>> ELSE sections[Len(sections)].data

\* the handle together with the buffer it borrows
Borrowed ==
    [ buffer             |-> Buffer,
      mail_type          |-> handle.mail_type,
      line_start_idx     |-> handle.line_start_idx,
      last_fws_idx       |-> handle.last_fws_idx,
      skipped_cr         |-> handle.skipped_cr,
      content_since_fws  |-> handle.content_since_fws,
      content_before_fws |-> handle.content_before_fws,
      header_start_idx   |-> handle.header_start_idx ]

Fields(e) ==
    [ live               |-> TRUE,
      mail_type          |-> e.mail_type,
      line_start_idx     |-> e.line_start_idx,
      last_fws_idx       |-> e.last_fws_idx,
      skipped_cr         |-> e.skipped_cr,
      content_since_fws  |-> e.content_since_fws,
      content_before_fws |-> e.content_before_fws,
      header_start_idx   |-> e.header_start_idx ]

Init ==
    /\ traceing = FALSE
    /\ mail_type \in MailTypes
    /\ sections = <<>>
    /\ out = <<>>
    /\ added = <<>>
    /\ leaked = FALSE
    /\ handle = NoHandle
    /\ panicked = FALSE
    /\ result = "Unit"
    /\ call = [op |-> "new", arg |-> <<>>]
    /\ pre_buf = <<>>
    /\ pre_skipped_cr = FALSE
    /\ boundary_buf = <<>>
    /\ progress = "created"
    /\ budget = MaxWrites

\* Encoder::encode_handle
\* NotBorrowed: no handle holds the &mut borrow of the encoder.
\* An encoder that can be used while a handle borrows it
NotBorrowedUnchecked == TRUE

NotBorrowed == ~handle.live

EncodeHandle ==
    /\ ~panicked
    /\ NotBorrowed
    /\ call.op # "into_sections"
    /\ LET secs == IF sections # <<>> /\ sections[Len(sections)].kind = "String"
                   THEN sections
                   ELSE Append(sections, Text(<<>>))
           buf  == secs[Len(secs)].data
       IN  /\ sections' = secs
           /\ handle' = Fields(new(mail_type, buf))
           /\ pre_buf' = buf
           /\ pre_skipped_cr' = FALSE
           /\ boundary_buf' = buf
    /\ result' = "Unit"
    /\ call' = [op |-> "encode_handle", arg |-> <<>>]
    /\ progress' = "created"
    /\ out' = <<>>
    /\ UNCHANGED <<traceing, mail_type, panicked, added, leaked, budget>>

\* a call c = [op, arg, ..] on the handle that returned r = [e, res]
Called(c, r) ==
    /\ handle' = Fields(r.e)
    /\ sections' = [sections EXCEPT ![Len(sections)] = Text(r.e.buffer)]
    /\ result' = r.res
    /\ panicked' = (r.res = "Panic")
    /\ call' = c
    /\ pre_buf' = Buffer
    /\ pre_skipped_cr' = handle.skipped_cr
    /\ boundary_buf' = IF c.op \in {"finish_header", "undo_header"}
                       THEN r.e.buffer ELSE boundary_buf
    /\ progress' = CASE c.op = "finish_header" -> "finished"
                     [] c.op = "undo_header"   -> "undone"
                     [] c.op = "mark_fws_pos"  -> progress
                     [] OTHER                -> "written"
    /\ budget' = IF c.op \in {"finish_header", "undo_header", "mark_fws_pos"}
                 THEN budget ELSE budget - 1
    /\ out' = <<>>
    /\ UNCHANGED <<traceing, mail_type, added, leaked>>

\* a call op(arg) on the handle that returned r = [e, res]
Returns(op, arg, r) == Called([op |-> op, arg |-> arg], r)

CanCall == ~panicked /\ handle.live

CanWrite == CanCall /\ budget > 0

WriteChar(ch) ==
    /\ CanWrite
    /\ Returns("write_char", <<ch>>, write_char(Borrowed, ch))

WriteStr(s) ==
    /\ CanWrite
    /\ Returns("write_str", s, write_str(Borrowed, s))

WriteUtf8(s) ==
    /\ CanWrite
    /\ Returns("write_utf8", s, write_utf8(Borrowed, s))

WriteIfUtf8(s) ==
    /\ CanWrite
    /\ Returns("write_if_utf8", s, write_if_utf8(Borrowed, s))

WriteIfAtext(s) ==
    /\ CanWrite
    /\ Returns("write_if_atext", s, write_if_atext(Borrowed, s))

WriteIf(s, cond) ==
    /\ CanWrite
    /\ Called([op |-> "write_if", arg |-> s, cond |-> cond],
              write_if(Borrowed, s, cond))

\* write_if_atext(s).handle_condition_failure(|handle| handle.write_str(t))
WriteIfAtextOr(s, t) ==
    /\ CanWrite
    /\ Called([op |-> "write_if_atext.handle_condition_failure",
               arg |-> s, func |-> t],
              handle_condition_failure(write_if_atext(Borrowed, s), t))

WriteStrUnchecked(s) ==
    /\ CanWrite
    /\ Returns("write_str_unchecked", s, write_str_unchecked(Borrowed, s))

WriteFws ==
    /\ CanWrite
    /\ Returns("write_fws", <<>>, write_fws(Borrowed))

MarkFwsPos ==
    /\ CanCall
    /\ Returns("mark_fws_pos", <<>>, [e |-> mark_fws_pos(Borrowed), res |-> "Unit"])

FinishHeader ==
    /\ CanCall
    /\ Returns("finish_header", <<>>, [e |-> finish_header(Borrowed), res |-> "Unit"])

UndoHeader ==
    /\ CanCall
    /\ Returns("undo_header", <<>>, [e |-> undo_header(Borrowed), res |-> "Unit"])

----------------------------------------------------------------------------
(* Inputs.                                                                 *)

Rep(ch, n) == [i \in 1..n |-> ch]

\* 'a', ' ', "\r", "\n"
Chars == {97, SP, CR, LF}

\* "a", a run of 77 'a', " ", "a\na", "a\ra", "a\r\n", "a\n", ""
Strs == { <<97>>, Rep(97, 77), <<SP>>, <<97, LF, 97>>, <<97, CR, 97>>,
          <<97, CR, LF>>, <<97, LF>>, <<>> }

\* "é", "a"
Utf8Strs == { <<233>>, <<97>> }

\* "é"
CondStrs == { <<233>> }

\* "a", "é", "("
AtextStrs == { <<97>>, <<233>>, <<40>> }

\* "é", "\t"
UncheckedStrs == { <<233>>, <<TAB>> }

Next ==
    \/ EncodeHandle
    \/ \E ch \in Chars : WriteChar(ch)
    \/ \E s \in Strs : WriteStr(s)
    \/ \E s \in Utf8Strs : WriteUtf8(s)
    \/ \E s \in CondStrs : WriteIfUtf8(s)
    \/ \E s \in AtextStrs : WriteIfAtext(s)
    \/ \E s \in CondStrs, cond \in BOOLEAN : WriteIf(s, cond)
    \/ \E s \in UncheckedStrs : WriteStrUnchecked(s)
    \/ WriteFws
    \/ MarkFwsPos
    \/ FinishHeader
    \/ UndoHeader

Spec == Init /\ [][Next]_vars

----------------------------------------------------------------------------
(* Runs that reach the hard line length limit: the same operations with    *)
(* long inputs.                                                            *)

\* a run of 997 'a', "a\na"
HardStrs == { Rep(97, 997), <<97, LF, 97>> }

\* "a", "\n"
HardChars == { 97, LF }

\* "é"
HardUncheckedStrs == { <<233>> }

InitHard ==
    /\ traceing = FALSE
    /\ mail_type \in MailTypes
    /\ sections = <<>>
    /\ out = <<>>
    /\ added = <<>>
    /\ leaked = FALSE
    /\ handle = NoHandle
    /\ panicked = FALSE
    /\ result = "Unit"
    /\ call = [op |-> "new", arg |-> <<>>]
    /\ pre_buf = <<>>
    /\ pre_skipped_cr = FALSE
    /\ boundary_buf = <<>>
    /\ progress = "created"
    /\ budget = MaxHardWrites

NextHard ==
    \/ EncodeHandle
    \/ \E ch \in HardChars : WriteChar(ch)
    \/ \E s \in HardStrs : WriteStr(s)
    \/ \E s \in HardUncheckedStrs : WriteStrUnchecked(s)
    \/ MarkFwsPos
    \/ FinishHeader
    \/ UndoHeader

SpecHard == InitHard /\ [][NextHard]_vars

----------------------------------------------------------------------------
(* Runs of the conditional writes and of what is done with their result.   *)

\* "\"": what the closure given to handle_condition_failure writes
FallbackStrs == { <<34>> }

InitCond ==
    /\ traceing = FALSE
    /\ mail_type \in MailTypes
    /\ sections = <<>>
    /\ out = <<>>
    /\ added = <<>>
    /\ leaked = FALSE
    /\ handle = NoHandle
    /\ panicked = FALSE
    /\ result = "Unit"
    /\ call = [op |-> "new", arg |-> <<>>]
    /\ pre_buf = <<>>
    /\ pre_skipped_cr = FALSE
    /\ boundary_buf = <<>>
    /\ progress = "created"
    /\ budget = MaxCondWrites

NextCond ==
    \/ EncodeHandle
    \/ WriteChar(CR)
    \/ WriteStr(Rep(97, 77))
    \/ \E s \in CondStrs : WriteIfUtf8(s)
    \/ \E s \in AtextStrs : WriteIfAtext(s)
    \/ \E s \in CondStrs, cond \in BOOLEAN : WriteIf(s, cond)
    \/ \E s \in AtextStrs, t \in FallbackStrs : WriteIfAtextOr(s, t)
    \/ MarkFwsPos
    \/ FinishHeader
    \/ UndoHeader

SpecCond == InitCond /\ [][NextCond]_vars

----------------------------------------------------------------------------
(* Encoder: the operations on the sections.                                *)

\* a BodyBuffer: its bytes, and whether with_slice can get at them
BodyBuffer(slice, available) == [slice |-> slice, available |-> available]

VecBodyBuf(slice) == BodyBuffer(slice, TRUE)

BodyPayload(body) == [kind |-> "BodyPayload", data |-> body]

LastIsString(secs) == secs # <<>> /\ secs[Len(secs)].kind = "String"

\* add_blank_line that never reuses the last section
add_blank_line_always_pushes(secs) == Append(secs, Text(<<CR, LF>>))

add_blank_line(secs) ==
    LET with_string == IF LastIsString(secs) THEN secs
                       ELSE Append(secs, Text(<<>>))
    IN  [with_string EXCEPT ![Len(with_string)] =
            Text(with_string[Len(with_string)].data \o <<CR, LF>>)]

\* add_body that leaves out a body without bytes
add_body_skips_empty(secs, body) ==
    IF body.slice = <<>> THEN secs ELSE Append(secs, BodyPayload(body))

add_body(secs, body) == Append(secs, BodyPayload(body))

into_sections(secs) == secs

\* <[u8]>::ends_with, str::ends_with
ends_with(slice, suffix) ==
    /\ Len(slice) >= Len(suffix)
    /\ SubSeq(slice, Len(slice) - Len(suffix) + 1, Len(slice)) = suffix

\* the closure of to_vec that ends every body with "\r\n"
extend_with_crlf(slice) == slice \o <<CR, LF>>

\* the closure to_vec gives to with_slice: what it adds to out
extend(slice) ==
    IF ends_with(slice, <<CR, LF>>) THEN slice ELSE slice \o <<CR, LF>>

\* the loop of to_vec over the sections k.. with out so far;
\* returns [res, out]
RECURSIVE to_vec_loop(_, _, _)
to_vec_loop(secs, k, o) ==
    IF k > Len(secs) THEN [res |-> "Ok", out |-> o]
    ELSE IF secs[k].kind = "String"
    THEN to_vec_loop(secs, k + 1, o \o secs[k].data)
    ELSE IF ~secs[k].data.available
    THEN [res |-> "AccessingMailBodyFailed", out |-> <<>>]
    ELSE to_vec_loop(secs, k + 1, o \o extend(secs[k].data.slice))

to_vec(secs) == to_vec_loop(secs, 1, <<>>)

\* UTF-8: the number of bytes of the sequence that the byte b0 starts,
\* 0 if no sequence starts with it
utf8_char_width(b0) ==
    IF b0 < 128 THEN 1
    ELSE IF b0 \in 194..223 THEN 2
    ELSE IF b0 \in 224..239 THEN 3
    ELSE IF b0 \in 240..244 THEN 4
    ELSE 0

\* b1 can follow the first byte b0 of a sequence of 2 to 4 bytes
SecondByteOk(b0, b1) ==
    CASE b0 = 224 -> b1 \in 160..191
      [] b0 = 237 -> b1 \in 128..159
      [] b0 = 240 -> b1 \in 144..191
      [] b0 = 244 -> b1 \in 128..143
      [] OTHER    -> b1 \in 128..191

\* the bytes of slice from index i on: [valid, len]: a sequence of len
\* bytes, or len bytes that are no sequence and that no further byte of
\* slice makes one
Utf8At(slice, i) ==
    LET w == utf8_char_width(slice[i])
        has(j) == i + j <= Len(slice)
    IN  IF w = 0 THEN [valid |-> FALSE, len |-> 1]
        ELSE IF w = 1 THEN [valid |-> TRUE, len |-> 1]
        ELSE IF ~has(1) \/ ~SecondByteOk(slice[i], slice[i + 1])
        THEN [valid |-> FALSE, len |-> 1]
        ELSE IF w = 2 THEN [valid |-> TRUE, len |-> 2]
        ELSE IF ~has(2) \/ slice[i + 2] \notin 128..191
        THEN [valid |-> FALSE, len |-> 2]
        ELSE IF w = 3 THEN [valid |-> TRUE, len |-> 3]
        ELSE IF ~has(3) \/ slice[i + 3] \notin 128..191
        THEN [valid |-> FALSE, len |-> 3]
        ELSE [valid |-> TRUE, len |-> 4]

\* str::from_utf8(slice) is Ok
RECURSIVE from_utf8_is_ok(_, _)
from_utf8_is_ok(slice, i) ==
    \/ i > Len(slice)
    \/ /\ Utf8At(slice, i).valid
       /\ from_utf8_is_ok(slice, i + Utf8At(slice, i).len)

\* String::from_utf8_lossy(slice): U+FFFD for what is no sequence
RECURSIVE from_utf8_lossy(_, _)
from_utf8_lossy(slice, i) ==
    IF i > Len(slice) THEN <<>>
    ELSE LET at == Utf8At(slice, i)
         IN  (IF at.valid THEN SubSeq(slice, i, i + at.len - 1)
              ELSE Utf8(65533))
                \o from_utf8_lossy(slice, i + at.len)

\* bodyslice2string that replaces what is no UTF-8, whoever calls it
bodyslice2string_lossy(slice, lossy) ==
    [res |-> "Ok", text |-> from_utf8_lossy(slice, 1)]

\* the closure bodyslice2string of to_string (lossy = FALSE) and of
\* to_string_lossy (lossy = TRUE); returns [res, text]
bodyslice2string(slice, lossy) ==
    IF lossy THEN [res |-> "Ok", text |-> from_utf8_lossy(slice, 1)]
    ELSE IF from_utf8_is_ok(slice, 1) THEN [res |-> "Ok", text |-> slice]
    ELSE [res |-> "InvalidTextEncoding{utf-8}", text |-> <<>>]

\* the closure of _to_string that adds no "\r\n" after a body
push_str_without_crlf(text) == text

\* the closure _to_string gives to with_slice: what it adds to out for the
\* text of a body
push_str(text) ==
    IF ends_with(text, <<CR, LF>>) THEN text ELSE text \o <<CR, LF>>

\* the loop of _to_string over the sections k.. with out so far;
\* returns [res, out]
RECURSIVE to_string_loop(_, _, _, _)
to_string_loop(secs, lossy, k, o) ==
    IF k > Len(secs) THEN [res |-> "Ok", out |-> o]
    ELSE IF secs[k].kind = "String"
    THEN to_string_loop(secs, lossy, k + 1, o \o secs[k].data)
    ELSE IF ~secs[k].data.available
    THEN [res |-> "AccessingMailBodyFailed", out |-> <<>>]
    ELSE LET text == bodyslice2string(secs[k].data.slice, lossy)
         IN  IF text.res # "Ok" THEN [res |-> text.res, out |-> <<>>]
             ELSE to_string_loop(secs, lossy, k + 1, o \o push_str(text.text))

_to_string(secs, lossy) == to_string_loop(secs, lossy, 1, <<>>)

to_string(secs) == _to_string(secs, FALSE)

to_string_lossy(secs) == _to_string(secs, TRUE)

\* a closure given to write_header_line: f.steps, the calls it makes on the
\* handle, a write_str(arg)? or a finish_header(), and f.ret, what it
\* returns after them; returns [e, res]
RECURSIVE call_func(_, _, _)
call_func(e, f, k) ==
    IF k > Len(f.steps) THEN [e |-> e, res |-> f.ret]
    ELSE IF f.steps[k].op = "finish_header"
    THEN call_func(finish_header(e), f, k + 1)
    ELSE LET r == write_str(e, f.steps[k].arg)
         IN  IF r.res # "Ok" THEN r ELSE call_func(r.e, f, k + 1)

\* write_header_line returns [sections, res]; res = "Panic": func panicked.
\* write_header_line that finishes the header whatever func returned
write_header_line_always_finishes(secs, mt, f) ==
    LET with_string == IF LastIsString(secs) THEN secs
                       ELSE Append(secs, Text(<<>>))
        r == call_func(new(mt, with_string[Len(with_string)].data), f, 1)
        after == IF r.res = "Panic" THEN r.e ELSE finish_header(r.e)
    IN  [ sections |-> [with_string EXCEPT ![Len(with_string)] =
                            Text(after.buffer)],
          res |-> r.res ]

write_header_line(secs, mt, f) ==
    LET with_string == IF LastIsString(secs) THEN secs
                       ELSE Append(secs, Text(<<>>))
        r == call_func(new(mt, with_string[Len(with_string)].data), f, 1)
        after == IF r.res = "Panic" THEN r.e
                 ELSE IF r.res = "Ok" THEN finish_header(r.e)
                 ELSE undo_header(r.e)
    IN  [ sections |-> [with_string EXCEPT ![Len(with_string)] =
                            Text(after.buffer)],
          res |-> r.res ]

\* into_sections(self) has not taken the encoder
NotMoved == call.op # "into_sections"

\* a call c on the encoder that left the sections secs and returned res
\* and the bytes o
EncoderCalled(c, secs, res, o) ==
    /\ sections' = secs
    /\ result' = res
    /\ out' = o
    /\ panicked' = (res = "Panic")
    /\ call' = c
    /\ pre_buf' = <<>>
    /\ pre_skipped_cr' = FALSE
    /\ budget' = IF c.op \in {"add_blank_line", "add_body", "write_header_line"}
                 THEN budget - 1 ELSE budget
    /\ added' = IF c.op = "add_body" THEN Append(added, c.arg) ELSE added
    /\ leaked' = leaked
    /\ UNCHANGED <<traceing, mail_type, handle, boundary_buf, progress>>

AddBlankLine ==
    /\ ~panicked /\ NotBorrowed /\ NotMoved /\ budget > 0
    /\ EncoderCalled([op |-> "add_blank_line", arg |-> <<>>],
                     add_blank_line(sections), "Unit", <<>>)

AddBody(body) ==
    /\ ~panicked /\ NotBorrowed /\ NotMoved /\ budget > 0
    /\ EncoderCalled([op |-> "add_body", arg |-> body],
                     add_body(sections, body), "Unit", <<>>)

WriteHeaderLine(f) ==
    /\ ~panicked /\ NotBorrowed /\ NotMoved /\ budget > 0
    /\ LET r == write_header_line(sections, mail_type, f)
       IN  EncoderCalled([op |-> "write_header_line", arg |-> f],
                         r.sections, r.res, <<>>)

ToVec ==
    /\ ~panicked /\ NotBorrowed /\ NotMoved
    /\ EncoderCalled([op |-> "to_vec", arg |-> <<>>], sections,
                     to_vec(sections).res, to_vec(sections).out)

\* Encoder::to_string (TLC has a ToString of its own)
EncoderToString ==
    /\ ~panicked /\ NotBorrowed /\ NotMoved
    /\ EncoderCalled([op |-> "to_string", arg |-> <<>>], sections,
                     to_string(sections).res, to_string(sections).out)

ToStringLossy ==
    /\ ~panicked /\ NotBorrowed /\ NotMoved
    /\ EncoderCalled([op |-> "to_string_lossy", arg |-> <<>>], sections,
                     to_string_lossy(sections).res,
                     to_string_lossy(sections).out)

IntoSections ==
    /\ ~panicked /\ NotBorrowed /\ NotMoved
    /\ EncoderCalled([op |-> "into_sections", arg |-> <<>>], sections,
                     "Unit", into_sections(sections))

\* the handle goes out of scope, also while a panic unwinds.
\* A drop that checks nothing, as in a build without "traceing"
DropHandleUnchecked ==
    /\ handle.live
    /\ handle' = NoHandle
    /\ result' = IF panicked THEN result ELSE "Unit"
    /\ call' = [op |-> "drop", arg |-> <<>>]
    /\ pre_buf' = Buffer
    /\ pre_skipped_cr' = handle.skipped_cr
    /\ out' = <<>>
    /\ leaked' = (leaked \/ has_unfinished_parts(Borrowed))
    /\ UNCHANGED <<traceing, mail_type, sections, panicked, added, boundary_buf,
                   progress, budget>>

DropHandle ==
    /\ handle.live
    /\ handle' = NoHandle
    /\ LET flagged == /\ traceing /\ ~panicked
                      /\ has_unfinished_parts(Borrowed)
       IN  /\ panicked' = (panicked \/ flagged)
           /\ result' = IF flagged THEN "Panic"
                        ELSE IF panicked THEN result ELSE "Unit"
    /\ call' = [op |-> "drop", arg |-> <<>>]
    /\ pre_buf' = Buffer
    /\ pre_skipped_cr' = handle.skipped_cr
    /\ out' = <<>>
    /\ leaked' = (leaked \/ has_unfinished_parts(Borrowed))
    /\ UNCHANGED <<traceing, mail_type, sections, added, boundary_buf, progress,
                   budget>>

\* "a", 78 'a'
EncStrs == { <<97>>, Rep(97, 78) }

\* no bytes, bytes 0 1 2, "a\r\n", "é", a byte that is no UTF-8 and "a",
\* and a body that cannot be read
Bodies == { VecBodyBuf(<<>>), VecBodyBuf(<<0, 1, 2>>), VecBodyBuf(<<97, CR, LF>>),
            VecBodyBuf(<<195, 169>>), VecBodyBuf(<<255, 97>>),
            BodyBuffer(<<0>>, FALSE) }

WriteStep(s) == [op |-> "write_str", arg |-> s]

FinishStep == [op |-> "finish_header", arg |-> <<>>]

\* closures: |h| h.write_str("a");
\* |h| { h.write_str("a")?; h.finish_header(); Ok(()) };
\* |h| { h.write_str("a")?; Err(Other) };
\* |h| { h.write_str("b")?; h.finish_header(); h.write_str("a")?; Err(Other) };
\* |h| h.write_str("a\n"); |h| h.write_str(" ")
Funcs == { [steps |-> <<WriteStep(<<97>>)>>, ret |-> "Ok"],
           [steps |-> <<WriteStep(<<97>>), FinishStep>>, ret |-> "Ok"],
           [steps |-> <<WriteStep(<<97>>)>>, ret |-> "Other"],
           [steps |-> <<WriteStep(<<98>>), FinishStep, WriteStep(<<97>>)>>,
            ret |-> "Other"],
           [steps |-> <<WriteStep(<<97, LF>>)>>, ret |-> "Ok"],
           [steps |-> <<WriteStep(<<SP>>)>>, ret |-> "Ok"] }

InitEnc ==
    /\ traceing \in BOOLEAN
    /\ mail_type = "Ascii"
    /\ sections = <<>>
    /\ out = <<>>
    /\ added = <<>>
    /\ leaked = FALSE
    /\ handle = NoHandle
    /\ panicked = FALSE
    /\ result = "Unit"
    /\ call = [op |-> "new", arg |-> <<>>]
    /\ pre_buf = <<>>
    /\ pre_skipped_cr = FALSE
    /\ boundary_buf = <<>>
    /\ progress = "created"
    /\ budget = MaxEncOps

NextEnc ==
    \/ EncodeHandle
    \/ \E s \in EncStrs : WriteStr(s)
    \/ MarkFwsPos
    \/ FinishHeader
    \/ UndoHeader
    \/ DropHandle
    \/ AddBlankLine
    \/ \E body \in Bodies : AddBody(body)
    \/ \E f \in Funcs : WriteHeaderLine(f)
    \/ ToVec
    \/ EncoderToString
    \/ ToStringLossy
    \/ IntoSections

SpecEnc == InitEnc /\ [][NextEnc]_vars

----------------------------------------------------------------------------
(* HeaderName: the validation of a header field name.                      *)

\* grammar::is_ftext: ftext of RFC 5322, the printable us-ascii chars
\* without ":"
is_ftext(ch) == ch \in 33..57 \/ ch \in 59..126

\* the match on a char that treats a digit as the end of a word
match_ch_digit_ends_word(ch, begin_of_word) ==
    IF ch \in 97..122
    THEN IF begin_of_word
         THEN [res |-> "RejectedHeaderNameSchema", begin_of_word |-> TRUE]
         ELSE [res |-> "Ok", begin_of_word |-> begin_of_word]
    ELSE IF ch \in 65..90
    THEN IF begin_of_word
         THEN [res |-> "Ok", begin_of_word |-> FALSE]
         ELSE [res |-> "RejectedHeaderNameSchema", begin_of_word |-> FALSE]
    ELSE IF ch < 33 \/ ch > 126 \/ ch = 58
    THEN [res |-> "RejectedHeaderNameSchema", begin_of_word |-> begin_of_word]
    ELSE [res |-> "Ok", begin_of_word |-> TRUE]

\* the match on a char of validate_name; returns [res, begin_of_word]
match_ch(ch, begin_of_word) ==
    IF ch \in 97..122
    THEN IF begin_of_word
         THEN [res |-> "RejectedHeaderNameSchema", begin_of_word |-> TRUE]
         ELSE [res |-> "Ok", begin_of_word |-> begin_of_word]
    ELSE IF ch \in 65..90
    THEN IF begin_of_word
         THEN [res |-> "Ok", begin_of_word |-> FALSE]
         ELSE [res |-> "RejectedHeaderNameSchema", begin_of_word |-> FALSE]
    ELSE IF ch \in 48..57
    THEN [res |-> "Ok", begin_of_word |-> FALSE]
    ELSE IF ch < 33 \/ ch > 126 \/ ch = 58
    THEN [res |-> "RejectedHeaderNameSchema", begin_of_word |-> begin_of_word]
    ELSE [res |-> "Ok", begin_of_word |-> TRUE]

\* the loop of validate_name over the chars k.. of name
RECURSIVE validate_chars(_, _, _)
validate_chars(name, k, begin_of_word) ==
    IF k > Len(name) THEN "Ok"
    ELSE IF ~is_ftext(name[k]) THEN "InvalidHeaderName"
    ELSE LET m == match_ch(name[k], begin_of_word)
         IN  IF m.res # "Ok" THEN m.res
             ELSE validate_chars(name, k + 1, m.begin_of_word)

validate_name(name) ==
    IF Len(name) < 1 THEN "InvalidHeaderName"
    ELSE validate_chars(name, 1, TRUE)

\* HeaderName::new(name) returns, for the name of the pending call
HeaderNameNew ==
    /\ call.op = "HeaderName::new"
    /\ result = "Pending"
    /\ result' = validate_name(call.arg)
    /\ UNCHANGED <<traceing, mail_type, sections, handle, panicked, out, added,
                   leaked,
                   call, pre_buf, pre_skipped_cr, boundary_buf, progress,
                   budget>>

\* "A", "a", "3", "-", "~", ":", " ", "\0", "é"
NameChars == {65, 97, 51, 45, 126, 58, SP, 0, 233}

\* the strs of n chars of NameChars
NamesOfLen(n) == [1..n -> NameChars]

Names == UNION {NamesOfLen(n) : n \in 0..MaxNameLen}

InitName ==
    /\ traceing = FALSE
    /\ mail_type = "Ascii"
    /\ sections = <<>>
    /\ out = <<>>
    /\ added = <<>>
    /\ leaked = FALSE
    /\ handle = NoHandle
    /\ panicked = FALSE
    /\ result = "Pending"
    /\ call \in {[op |-> "HeaderName::new", arg |-> name] : name \in Names}
    /\ pre_buf = <<>>
    /\ pre_skipped_cr = FALSE
    /\ boundary_buf = <<>>
    /\ progress = "created"
    /\ budget = 0

NextName == HeaderNameNew

SpecName == InitName /\ [][NextName]_vars

----------------------------------------------------------------------------
(* Properties.                                                             *)

IsPrefix(p, b) == Len(p) <= Len(b) /\ SubSeq(b, 1, Len(p)) = p

\* the bytes of the chars lo..hi of the str s
RECURSIVE BytesOfRange(_, _, _)
BytesOfRange(s, lo, hi) ==
    IF lo > hi THEN <<>>
    ELSE IF lo = hi THEN Utf8(s[lo])
    ELSE BytesOfRange(s, lo, (lo + hi) \div 2)
            \o BytesOfRange(s, (lo + hi) \div 2 + 1, hi)

BytesOf(s) == BytesOfRange(s, 1, Len(s))

\* the calls that write a str and return a Result
StrWrites == {"write_str", "write_utf8", "write_if_utf8", "write_if_atext",
              "write_if", "write_str_unchecked"}

\* C1: undo_header() leaves the buffer byte for byte equal to its content
\* at the last header boundary (creation of the handle, finish_header or
\* undo_header), whatever was called since: writes that folded the line,
\* that handled a "\r\n" or that failed, mark_fws_pos, write_fws.
UndoRestoresBoundary ==
    [][call'.op = "undo_header" => Buffer' = boundary_buf]_vars

\* an undo_header that removed a field with a soft fold in it:
\* "a", fold, 78 more 'a'
UndoAfterFold ==
    /\ call.op = "undo_header"
    /\ Buffer = <<>>
    /\ pre_buf = <<97, CR, LF, SP>> \o Rep(97, 78)

\* C2: no call on the handle changes or removes the bytes that were in the
\* buffer at the last header boundary: they stay a prefix of the buffer.
BoundaryPrefixKept ==
    [][(handle.live /\ ~panicked) => IsPrefix(boundary_buf, Buffer')]_vars

\* write "a", finish_header, write "a", undo_header: "a\r\n" is left
UndoKeepsFinishedField ==
    /\ call.op = "undo_header"
    /\ pre_buf = <<97, CR, LF, 97>>
    /\ Buffer = <<97, CR, LF>>

NoNewline(s) == \A i \in 1..Len(s) : s[i] \notin {CR, LF}

HasContent(s) == \E i \in 1..Len(s) : s[i] \notin {SP, TAB}

\* the calls that write and return a Result
Writes == StrWrites \cup {"write_char"}

\* C3 as claimed: for every s without "\r" and "\n", a successful write of
\* s followed by finish_header() leaves the content before the write
\* followed by s and "\r\n".
WriteFinishAppendsCrlf ==
    [][(/\ call'.op = "finish_header"
        /\ call.op \in Writes /\ result = "Ok"
        /\ NoNewline(call.arg))
       => Buffer' = pre_buf \o BytesOf(call.arg) \o <<CR, LF>>]_vars

\* C3 as amended: for every s without "\r" and "\n" that has a char other
\* than space and tab, a successful write of s that inserted no soft fold,
\* followed by finish_header(), leaves the content before the write
\* followed by s and "\r\n".
WriteContentFinishAppendsCrlf ==
    [][(/\ call'.op = "finish_header"
        /\ call.op \in Writes /\ result = "Ok"
        /\ NoNewline(call.arg) /\ HasContent(call.arg)
        /\ Buffer = pre_buf \o BytesOf(call.arg))
       => Buffer' = pre_buf \o BytesOf(call.arg) \o <<CR, LF>>]_vars

\* the field of 77 'a' was written after the field "a" and finished
FinishedSecondField ==
    /\ call.op = "finish_header"
    /\ pre_buf = <<97, CR, LF>> \o Rep(97, 77)
    /\ Buffer = pre_buf \o <<CR, LF>>

\* C4: after a finish_header() or undo_header(), a finish_header() or
\* undo_header() with no write call in between leaves the buffer unchanged.
RepeatedFinishUndoIsNoop ==
    [][(/\ handle.live /\ ~panicked
        /\ progress \in {"finished", "undone"}
        /\ call'.op \in {"finish_header", "undo_header"})
       => Buffer' = Buffer]_vars

\* "a" was written and finished, and an undo_header() with no write call
\* in between changed nothing
UndoAfterFinish ==
    /\ call.op = "undo_header"
    /\ budget = MaxWrites - 1
    /\ pre_buf = <<97, CR, LF>>
    /\ Buffer = <<97, CR, LF>>

\* C5: a write of a char other than "\r" and "\n", made when the current
\* line is at least 78 bytes long and a fold point is marked after the line
\* start with content before it on the line, inserts the line break at the
\* marked offset and keeps every byte written before, in order.
FoldsAtMarkedPoint ==
    [][(/\ handle.live /\ ~panicked
        /\ call'.op = "write_char" /\ call'.arg[1] \notin {CR, LF}
        /\ ~handle.skipped_cr
        /\ current_line_byte_length(Borrowed) >= LINE_LEN_SOFT_LIMIT
        /\ handle.content_before_fws
        /\ handle.last_fws_idx > handle.line_start_idx)
       => \E newline \in {<<CR, LF>>, <<CR, LF, SP>>, <<CR, LF, TAB>>} :
            Buffer' = insert_str(Buffer, handle.last_fws_idx, newline)
                        \o Utf8(call'.arg[1])]_vars

\* the offsets at which the physical lines of buf start
LineStarts(buf) ==
    {0} \cup {j + 1 : j \in {i \in 1..(Len(buf) - 1) :
                                buf[i] = CR /\ buf[i + 1] = LF}}

\* the line of buf that starts at offset start has more than max bytes
\* before its "\r\n" or the end of buf
LineLonger(buf, start, max) ==
    /\ start + max + 1 <= Len(buf)
    /\ \A i \in (start + 1)..(start + max + 1) :
         ~(buf[i] = CR /\ i < Len(buf) /\ buf[i + 1] = LF)

\* the offset at which the last physical line of buf starts
LastLineStart(buf) ==
    CHOOSE start \in LineStarts(buf) : \A o \in LineStarts(buf) : o <= start

\* C6: no physical line of a text section is longer than 998 bytes.
NoLineOverHardLimit ==
    \A k \in 1..Len(sections) :
        sections[k].kind = "String" =>
            \A start \in LineStarts(sections[k].data) :
                ~LineLonger(sections[k].data, start, LINE_LEN_HARD_LIMIT)

Plain(s) == \A i \in 1..Len(s) : s[i] < 128 /\ s[i] \notin {CR, LF}

\* C7: from an empty buffer and with no fold point marked, single byte
\* chars other than "\r" and "\n" are accepted up to the 998th, and every
\* later one is refused with HardLineLengthLimitBreached and leaves the
\* buffer at 998 bytes.
HardLimitAfter998 ==
    [][(/\ handle.live /\ ~panicked
        /\ call'.op \in {"write_char", "write_str", "write_str_unchecked"}
        /\ Plain(call'.arg)
        /\ handle.header_start_idx = 0 /\ handle.last_fws_idx = 0
        /\ ~handle.skipped_cr
        /\ Plain(Buffer))
       => IF Len(Buffer) + Len(call'.arg) <= LINE_LEN_HARD_LIMIT
          THEN result' = "Ok" /\ Buffer' = Buffer \o call'.arg
          ELSE /\ result' = "HardLineLengthLimitBreached"
               /\ Buffer' = Buffer \o SubSeq(call'.arg, 1,
                                              LINE_LEN_HARD_LIMIT - Len(Buffer))
               /\ Len(Buffer') = LINE_LEN_HARD_LIMIT]_vars

\* the 999th 'a' was refused
RefusedAt998 ==
    /\ call = [op |-> "write_char", arg |-> <<97>>]
    /\ result = "HardLineLengthLimitBreached"
    /\ pre_buf = Rep(97, 998)
    /\ Buffer = Rep(97, 998)

\* C8: a write fails with HardLineLengthLimitBreached only when the current
\* line is 998 bytes long and cannot be folded.
HardLimitOnlyOnFullLine ==
    (handle.live /\ result = "HardLineLengthLimitBreached")
        => /\ current_line_byte_length(Borrowed) = LINE_LEN_HARD_LIMIT
           /\ ~(handle.content_before_fws
                    /\ handle.last_fws_idx > handle.line_start_idx)

\* C9: after a successful write, a line longer than 78 bytes has no usable
\* fold point.
NoFoldableLineOverSoftLimit ==
    (/\ handle.live /\ ~panicked
     /\ call.op \in Writes /\ result = "Ok"
     /\ current_line_byte_length(Borrowed) > LINE_LEN_SOFT_LIMIT)
        => ~(handle.content_before_fws
                /\ handle.last_fws_idx > handle.line_start_idx)

\* s[i] is an orphan: a "\n" with no "\r" pending or another char with a
\* "\r" pending; pending: a "\r" is pending when s[1] is written
OrphanAt(s, i, pending) ==
    LET p == IF i = 1 THEN pending ELSE s[i - 1] = CR
    IN  IF s[i] = LF THEN ~p ELSE p

Orphans(s, pending) == {i \in 1..Len(s) : OrphanAt(s, i, pending)}

\* C10: a write that reaches an orphan "\n" or "\r", at whatever place of
\* the written str, fails with Malformed (a write that leaves the str
\* unwritten, or fails on an earlier char, does not reach it).
OrphanIsMalformed ==
    [][(/\ handle.live /\ ~panicked
        /\ call'.op \in Writes
        /\ result' \notin {"ConditionFailure", "InvalidTextEncoding"}
        /\ Orphans(call'.arg, handle.skipped_cr) # {})
       => \/ result' = "Malformed"
          \/ /\ 1 \notin Orphans(call'.arg, handle.skipped_cr)
             /\ result' \in {"HardLineLengthLimitBreached", "Panic"}]_vars

\* "a\na" was refused after its "a" was written
OrphanLfInMiddle ==
    /\ call = [op |-> "write_str", arg |-> <<97, LF, 97>>]
    /\ result = "Malformed"
    /\ Buffer = pre_buf \o <<97>>

\* s ends in "\r\n"
EndsInCrlf(s) == Len(s) >= 2 /\ s[Len(s) - 1] = CR /\ s[Len(s)] = LF

\* C11: a "\r" written as data is held back (the buffer is unchanged), the
\* "\n" that follows it on a line with content appends exactly "\r\n", a
\* str of content ending in "\r\n" written on a line that needs no fold is
\* appended as it is, and a finish_header() directly after a successful
\* write ending in "\r\n" leaves the buffer unchanged.
CrlfWrittenOnce ==
    [][(handle.live /\ ~panicked) =>
        /\ (call'.op = "write_char" /\ call'.arg = <<CR>> /\ result' = "Ok")
                => Buffer' = Buffer
        /\ (/\ call'.op = "write_char" /\ call'.arg = <<LF>>
            /\ handle.skipped_cr /\ line_has_content(Borrowed))
                => result' = "Ok" /\ Buffer' = Buffer \o <<CR, LF>>
        /\ (/\ call'.op = "write_str" /\ EndsInCrlf(call'.arg)
            /\ Plain(SubSeq(call'.arg, 1, Len(call'.arg) - 2))
            /\ HasContent(SubSeq(call'.arg, 1, Len(call'.arg) - 2))
            /\ ~handle.skipped_cr
            /\ current_line_byte_length(Borrowed) + Len(call'.arg) - 2
                    <= LINE_LEN_SOFT_LIMIT)
                => result' = "Ok" /\ Buffer' = Buffer \o call'.arg
        /\ (/\ call'.op = "finish_header"
            /\ call.op \in Writes /\ result = "Ok" /\ EndsInCrlf(call.arg))
                => Buffer' = Buffer]_vars

\* "a\r\n" was written after "a": one "\r\n" is in the buffer
CrlfAsData ==
    /\ call = [op |-> "write_str", arg |-> <<97, CR, LF>>]
    /\ result = "Ok"
    /\ pre_buf = <<97>>
    /\ Buffer = <<97, 97, CR, LF>>

\* s ends in "\r"
EndsInCr(s) == Len(s) >= 1 /\ s[Len(s)] = CR

\* a write of the str s, which ends in "\r" and has no other "\r" or "\n",
\* made with no "\r" held back on a line that stays within the soft limit
WritesTrailingCr(s) ==
    /\ handle.live /\ ~panicked /\ ~handle.skipped_cr
    /\ EndsInCr(s)
    /\ NoNewline(SubSeq(s, 1, Len(s) - 1))
    /\ current_line_byte_length(Borrowed)
            + Len(BytesOf(SubSeq(s, 1, Len(s) - 1))) <= LINE_LEN_SOFT_LIMIT

\* C12 as claimed: a write whose last char is a "\r" succeeds and holds the
\* "\r" back, and a finish_header() directly after such a write appends
\* exactly "\r\n" to what is in the buffer.
TrailingCrEndsField ==
    [][/\ (/\ call'.op \in {"write_char", "write_str", "write_str_unchecked"}
           /\ WritesTrailingCr(call'.arg))
                => /\ result' = "Ok" /\ handle'.skipped_cr
                   /\ Buffer' = Buffer \o BytesOf(SubSeq(call'.arg, 1,
                                                         Len(call'.arg) - 1))
       /\ (/\ handle.live /\ ~panicked
           /\ call'.op = "finish_header"
           /\ call.op \in Writes /\ result = "Ok" /\ EndsInCr(call.arg))
                => Buffer' = Buffer \o <<CR, LF>>]_vars

\* C12 as amended: the same, with the finish_header() appending exactly
\* "\r\n" when the current line has a char other than space and tab, and
\* cutting the line off without a "\r\n" when it has none.
TrailingCrEndsFieldWithContent ==
    [][/\ (/\ call'.op \in {"write_char", "write_str", "write_str_unchecked"}
           /\ WritesTrailingCr(call'.arg))
                => /\ result' = "Ok" /\ handle'.skipped_cr
                   /\ Buffer' = Buffer \o BytesOf(SubSeq(call'.arg, 1,
                                                         Len(call'.arg) - 1))
       /\ (/\ handle.live /\ ~panicked
           /\ call'.op = "finish_header"
           /\ call.op \in Writes /\ result = "Ok" /\ EndsInCr(call.arg))
                => LET start == LastLineStart(Buffer)
                   IN  Buffer' = IF \E i \in (start + 1)..Len(Buffer) :
                                        Buffer[i] \notin {SP, TAB}
                                 THEN Buffer \o <<CR, LF>>
                                 ELSE SubSeq(Buffer, 1, start)]_vars

\* "é" and then "\r" were written, and finish_header() ended the field
\* with one "\r\n"
FinishedOnSkippedCr ==
    /\ call.op = "finish_header"
    /\ pre_skipped_cr
    /\ budget = MaxWrites - 2
    /\ pre_buf = <<195, 169>>
    /\ Buffer = <<195, 169, CR, LF>>

\* the line of buf that starts at offset start is ended by a "\r\n" and has
\* nothing but spaces and tabs before it
BlankLineAt(buf, start) ==
    \E i \in (start + 1)..(Len(buf) - 1) :
        /\ buf[i] = CR /\ buf[i + 1] = LF
        /\ \A j \in (start + 1)..(i - 1) : buf[j] \in {SP, TAB}

\* C13: no line of the buffer that is ended by a "\r\n" is empty or made of
\* spaces and tabs only, whatever ended it: a "\r\n" in the data, a soft
\* fold or finish_header.
NoBlankLine ==
    \A start \in LineStarts(Buffer) : ~BlankLineAt(Buffer, start)

\* " " and then "\r\n" were written on an empty line: the line was cut off
CrlfOnBlankLine ==
    /\ call = [op |-> "write_char", arg |-> <<LF>>]
    /\ result = "Ok"
    /\ pre_skipped_cr
    /\ pre_buf = <<SP>>
    /\ Buffer = <<>>

\* the field written since the last header boundary is one or more spaces
\* and tabs and nothing else
BlankField ==
    /\ Len(Buffer) > Len(boundary_buf)
    /\ IsPrefix(boundary_buf, Buffer)
    /\ \A i \in (Len(boundary_buf) + 1)..Len(Buffer) : Buffer[i] \in {SP, TAB}

\* C14 as claimed: finish_header() on a field of spaces and tabs only
\* leaves exactly "\r\n" for the field.
BlankFieldLeavesCrlf ==
    [][(handle.live /\ ~panicked /\ BlankField /\ call'.op = "finish_header")
       => Buffer' = boundary_buf \o <<CR, LF>>]_vars

\* C14 as amended: finish_header() on a field of spaces and tabs only
\* leaves nothing for the field, neither the whitespace nor a "\r\n".
BlankFieldLeavesNothing ==
    [][(handle.live /\ ~panicked /\ BlankField /\ call'.op = "finish_header")
       => Buffer' = boundary_buf]_vars

\* the field " \t" was finished: nothing is left of it
FinishedBlankField ==
    /\ call.op = "finish_header"
    /\ pre_buf = <<SP, TAB>>
    /\ Buffer = <<>>

\* C15: finish_header() truncates the buffer to the start of the current
\* line and appends nothing if the line has no byte other than space and
\* tab, and else removes nothing and appends "\r\n".
FinishTruncatesBlankLineOnly ==
    [][(handle.live /\ ~panicked /\ call'.op = "finish_header")
       => LET start == LastLineStart(Buffer)
          IN  Buffer' = IF \A i \in (start + 1)..Len(Buffer) :
                                Buffer[i] \in {SP, TAB}
                        THEN SubSeq(Buffer, 1, start)
                        ELSE Buffer \o <<CR, LF>>]_vars

\* "a " was finished: the space after the content stayed
FinishedWithTrailingSpace ==
    /\ call.op = "finish_header"
    /\ pre_buf = <<97, SP>>
    /\ Buffer = <<97, SP, CR, LF>>

\* the number of chars of a str of single byte chars that a write puts on
\* the current line before the line is found to be at the soft limit
BeforeFold ==
    IF current_line_byte_length(Borrowed) >= LINE_LEN_SOFT_LIMIT THEN 0
    ELSE LINE_LEN_SOFT_LIMIT - current_line_byte_length(Borrowed)

\* a write of the str s of single byte chars makes a soft fold: the line
\* gets to the soft limit before the last char of s, a fold point is marked
\* after the line start with content before it, and a byte is at the fold
\* point when the fold is made
FoldsOn(s) ==
    /\ handle.live /\ ~panicked /\ ~handle.skipped_cr
    /\ Plain(s) /\ BeforeFold < Len(s)
    /\ handle.content_before_fws
    /\ handle.last_fws_idx > handle.line_start_idx
    /\ handle.last_fws_idx < Len(Buffer) + BeforeFold
    /\ Len(Buffer) + Len(s) + 3 < LINE_LEN_HARD_LIMIT

FoldsAfterWriteFws(s) ==
    /\ call.op = "write_fws" /\ result = "Unit"
    /\ Buffer = pre_buf \o <<SP>>
    /\ FoldsOn(s)

WriteFwsCannotFail ==
    [][(handle.live /\ ~panicked) =>
        /\ call'.op = "write_fws"
                => /\ result' = "Unit"
                   /\ Buffer' = Buffer \o <<SP>>
                   /\ handle'.last_fws_idx = Len(Buffer)
        /\ call'.op = "mark_fws_pos"
                => /\ result' = "Unit"
                   /\ Buffer' = Buffer
                   /\ handle'.last_fws_idx = Len(Buffer)]_vars

\* C19: write_utf8(s) in a mail that is not internationalized fails with
\* InvalidTextEncoding for every s and changes neither the buffer nor the
\* handle; in an internationalized mail it never fails so, and it succeeds
\* and appends the UTF-8 bytes of s where a write of s can: s has no "\r"
\* and "\n", no "\r" is held back and the line stays within the soft limit.
WriteUtf8NeedsInternationalized ==
    [][(handle.live /\ ~panicked /\ call'.op = "write_utf8") =>
        IF mail_type \in {"Ascii", "Mime8BitEnabled"}
        THEN /\ result' = "InvalidTextEncoding"
             /\ Buffer' = Buffer
             /\ handle' = handle
        ELSE /\ result' # "InvalidTextEncoding"
             /\ (/\ NoNewline(call'.arg) /\ ~handle.skipped_cr
                 /\ current_line_byte_length(Borrowed)
                        + Len(BytesOf(call'.arg)) <= LINE_LEN_SOFT_LIMIT)
                    => /\ result' = "Ok"
                       /\ Buffer' = Buffer \o BytesOf(call'.arg)]_vars

\* write_utf8("a") was refused in an Ascii mail
Utf8AsciiStrRefused ==
    /\ mail_type = "Ascii"
    /\ call = [op |-> "write_utf8", arg |-> <<97>>]
    /\ result = "InvalidTextEncoding"
    /\ pre_buf = <<97>>
    /\ Buffer = <<97>>

\* the conditional writes
CondWrites == {"write_if_atext", "write_if_utf8", "write_if"}

\* the condition of the conditional write c holds in a mail of type mt
ConditionHolds(c, mt) ==
    CASE c.op = "write_if_utf8" -> mt = "Internationalized"
      [] c.op = "write_if"      -> c.cond
      [] OTHER -> \A i \in 1..Len(c.arg) : is_atext(c.arg[i], mt)

\* the call returned what r = [e, res] is and left the handle as r.e
Did(r) ==
    /\ result' = r.res
    /\ Buffer' = r.e.buffer
    /\ handle' = Fields(r.e)

\* C20: a conditional write returns ConditionFailure, with the buffer and
\* the handle unchanged, exactly when its condition is false, and else does
\* what a write of the str does and returns Ok or a GeneralFailure with the
\* error of the write; handle_condition_failure runs its closure on the
\* unchanged handle after a ConditionFailure, and after Ok or
\* GeneralFailure returns that result without running it.
ConditionFailureIffConditionFalse ==
    [][(handle.live /\ ~panicked) =>
        /\ call'.op \in CondWrites
                => IF ConditionHolds(call', mail_type)
                   THEN /\ Did(write_str(Borrowed, call'.arg))
                        /\ result' # "ConditionFailure"
                   ELSE /\ result' = "ConditionFailure"
                        /\ Buffer' = Buffer
                        /\ handle' = handle
        /\ call'.op = "write_if_atext.handle_condition_failure"
                => /\ result' # "ConditionFailure"
                   /\ IF ConditionHolds(call', mail_type)
                      THEN Did(write_str(Borrowed, call'.arg))
                      ELSE Did(write_str(Borrowed, call'.func))]_vars

\* write_if_atext("(") in an Ascii mail had a ConditionFailure and the
\* closure wrote "\"" instead
FallbackWritten ==
    /\ mail_type = "Ascii"
    /\ call = [op |-> "write_if_atext.handle_condition_failure",
               arg |-> <<40>>, func |-> <<34>>]
    /\ result = "Ok"
    /\ Buffer = pre_buf \o <<34>>

\* the text of the last section, nothing if it is a body or there is none
LastText(secs) == IF LastIsString(secs) THEN secs[Len(secs)].data ELSE <<>>

\* the sections before the last text section
BeforeLastText(secs) ==
    IF LastIsString(secs) THEN SubSeq(secs, 1, Len(secs) - 1) ELSE secs

\* a field as finish_header leaves it: nothing if it has no content
FieldLine(field) == IF HasContent(field) THEN field \o <<CR, LF>> ELSE <<>>

\* what the closure f has to return and to leave committed, from its step k
\* on, with the bytes done of its finished fields and the field cur it is
\* writing
RECURSIVE FuncOutcome(_, _, _, _)
FuncOutcome(f, k, done, cur) ==
    IF k > Len(f.steps)
    THEN IF f.ret = "Ok" THEN [res |-> "Ok", bytes |-> done \o FieldLine(cur)]
         ELSE [res |-> f.ret, bytes |-> done]
    ELSE IF f.steps[k].op = "finish_header"
    THEN FuncOutcome(f, k + 1, done \o FieldLine(cur), <<>>)
    ELSE IF Orphans(f.steps[k].arg, FALSE) # {}
    THEN [res |-> "Malformed", bytes |-> done]
    ELSE FuncOutcome(f, k + 1, done, cur \o f.steps[k].arg)

\* C21: write_header_line(f) returns what f returned; on Ok the text that f
\* wrote is committed with a single "\r\n" after each field, also when f
\* called finish_header itself; on Err everything f wrote since its own
\* last finish_header is discarded and nothing committed before is undone.
WriteHeaderLineCommitsOrUndoes ==
    [][call'.op = "write_header_line" =>
         LET outcome == FuncOutcome(call'.arg, 1, <<>>, <<>>)
         IN  /\ result' = outcome.res
             /\ LastIsString(sections')
             /\ LastText(sections') = LastText(sections) \o outcome.bytes
             /\ BeforeLastText(sections') = BeforeLastText(sections)]_vars

\* after a committed "a", f wrote "b", finished it, wrote "a" and failed
FailedAfterOwnFinish ==
    /\ call.op = "write_header_line"
    /\ Len(call.arg.steps) = 3
    /\ result = "Other"
    /\ sections = <<Text(<<97, CR, LF, 98, CR, LF>>)>>

NoAdjacentText(secs) ==
    \A i \in 1..(Len(secs) - 1) :
        ~(secs[i].kind = "String" /\ secs[i + 1].kind = "String")

\* C22: encode_handle() and add_blank_line() leave the sections as they are
\* up to the last text section, which they reuse if the last section is
\* text and else push empty; add_blank_line() then appends exactly "\r\n" to
\* it and encode_handle() nothing. No two text sections are ever adjacent,
\* and as long as a handle exists the last section is text and the calls on
\* the handle change no other section.
TextSectionReused ==
    [][/\ call'.op \in {"encode_handle", "add_blank_line"} =>
            /\ LastIsString(sections')
            /\ BeforeLastText(sections') = BeforeLastText(sections)
            /\ LastText(sections') =
                  LastText(sections) \o (IF call'.op = "add_blank_line"
                                         THEN <<CR, LF>> ELSE <<>>)
       /\ NoAdjacentText(sections')
       /\ handle'.live => LastIsString(sections')
       /\ handle.live /\ handle'.live =>
            BeforeLastText(sections') = BeforeLastText(sections)]_vars

\* a blank line added after a body: a new text section
BlankLineAfterBody ==
    /\ call.op = "add_blank_line"
    /\ Len(sections) = 2
    /\ sections[1].kind = "BodyPayload"
    /\ sections[2] = Text(<<CR, LF>>)

\* the bodies of the body sections of secs, in their order
RECURSIVE BodiesOf(_)
BodiesOf(secs) ==
    IF secs = <<>> THEN <<>>
    ELSE BodiesOf(SubSeq(secs, 1, Len(secs) - 1))
            \o (IF secs[Len(secs)].kind = "BodyPayload"
                THEN <<secs[Len(secs)].data>> ELSE <<>>)

\* C23: add_body(b) appends one body section holding b at the end and
\* leaves every other section as it is; the bodies of the sections are at
\* all times the bodies added, in the order they were added, and
\* into_sections() returns them so.
BodiesInInsertionOrder ==
    [][/\ call'.op = "add_body" =>
            /\ Len(sections') = Len(sections) + 1
            /\ SubSeq(sections', 1, Len(sections)) = sections
            /\ sections'[Len(sections')] = BodyPayload(call'.arg)
       /\ BodiesOf(sections') = added'
       /\ call'.op = "into_sections" =>
            /\ Len(out') = Len(sections)
            /\ BodiesOf(out') = added]_vars

\* a body without bytes and then a body of three bytes were added
TwoBodiesReturned ==
    /\ call.op = "into_sections"
    /\ added = <<VecBodyBuf(<<>>), VecBodyBuf(<<0, 1, 2>>)>>
    /\ Len(out) = 2

AllAvailable(secs) ==
    \A i \in 1..Len(secs) :
        secs[i].kind = "BodyPayload" => secs[i].data.available

\* the bytes of a section: its text, or its body with "\r\n" after it
\* unless the body ends in "\r\n"
SectionBytes(sec) ==
    IF sec.kind = "String" THEN sec.data
    ELSE IF EndsInCrlf(sec.data.slice) THEN sec.data.slice
    ELSE sec.data.slice \o <<CR, LF>>

RECURSIVE Concatenated(_)
Concatenated(secs) ==
    IF secs = <<>> THEN <<>>
    ELSE Concatenated(SubSeq(secs, 1, Len(secs) - 1))
            \o SectionBytes(secs[Len(secs)])

\* C24: to_vec() of sections whose bodies can all be read returns the bytes
\* of the sections in their order, a body followed by "\r\n" exactly when
\* its bytes do not end in "\r\n" (so also a body without bytes), and
\* leaves the sections as they are.
ToVecConcatenates ==
    [][call'.op = "to_vec" /\ AllAvailable(sections) =>
            /\ result' = "Ok"
            /\ out' = Concatenated(sections)
            /\ sections' = sections]_vars

\* the body "a\r\n" and then a body without bytes
CrlfOnlyAfterEmptyBody ==
    /\ call.op = "to_vec"
    /\ added = <<VecBodyBuf(<<97, CR, LF>>), VecBodyBuf(<<>>)>>
    /\ Len(sections) = 2
    /\ out = <<97, CR, LF, CR, LF>>

\* the calls that turn the sections into bytes or into a string
Renders == {"to_vec", "to_string", "to_string_lossy"}

\* the body sections of secs that the call op cannot turn into output
Failing(secs, op) ==
    {i \in 1..Len(secs) :
        /\ secs[i].kind = "BodyPayload"
        /\ \/ ~secs[i].data.available
           \/ op = "to_string" /\ ~from_utf8_is_ok(secs[i].data.slice, 1)}

FirstFailing(secs, op) ==
    CHOOSE i \in Failing(secs, op) : \A j \in Failing(secs, op) : i <= j

\* C25: to_vec(), to_string() and to_string_lossy() fail and return no
\* output when a body cannot be read, to_string() also when a body that can
\* be read is not UTF-8; the error is AccessingMailBodyFailed or
\* InvalidTextEncoding (expected utf-8) after the first such body; in every
\* other case they return Ok, to_string_lossy() also for bodies that are
\* not UTF-8.
RenderFailsWithoutOutput ==
    [][call'.op \in Renders =>
         IF Failing(sections, call'.op) = {} THEN result' = "Ok"
         ELSE /\ out' = <<>>
              /\ result' =
                   IF sections[FirstFailing(sections, call'.op)].data.available
                   THEN "InvalidTextEncoding{utf-8}"
                   ELSE "AccessingMailBodyFailed"]_vars

\* to_string() of a blank line and a body that is not UTF-8
ToStringOfInvalidBody ==
    /\ call.op = "to_string"
    /\ result = "InvalidTextEncoding{utf-8}"
    /\ out = <<>>
    /\ added = <<VecBodyBuf(<<255, 97>>)>>
    /\ sections[1] = Text(<<CR, LF>>)

\* C26: has_unfinished_parts() is false right after the handle is created
\* and after finish_header() and undo_header(), and at any time it is false
\* exactly when the buffer holds what it held at the last of these
\* boundaries, so it is true after every write that left bytes in it.
UnfinishedIffBeyondBoundary ==
    handle.live /\ ~panicked =>
        /\ has_unfinished_parts(Borrowed) <=> Buffer # boundary_buf
        /\ call.op \in {"encode_handle", "finish_header", "undo_header"} =>
                ~has_unfinished_parts(Borrowed)

\* a write left bytes after a field that was finished before
UnfinishedAfterFinishedField ==
    /\ handle.live /\ ~panicked
    /\ call.op \in Writes
    /\ result = "Ok"
    /\ boundary_buf = <<97, CR, LF>>
    /\ Buffer = <<97, CR, LF, 97>>
    /\ has_unfinished_parts(Borrowed)

\* C27: the drop of a handle panics exactly when the build has "traceing",
\* the thread is not unwinding from a panic already and
\* has_unfinished_parts() is true.
DropPanicsIffUnfinished ==
    [][call'.op = "drop" =>
         /\ (panicked' /\ ~panicked) <=>
                (traceing /\ ~panicked /\ has_unfinished_parts(Borrowed))
         /\ (result' = "Panic") <=> panicked']_vars

\* the handle was dropped after "a" was written and not finished
DroppedUnfinished ==
    /\ call.op = "drop"
    /\ traceing
    /\ result = "Panic"
    /\ sections = <<Text(<<97>>)>>

\* the calls that take the encoder by &mut self, &self or self
EncoderCalls == {"encode_handle", "write_header_line", "add_blank_line",
                 "add_body", "into_sections", "to_vec", "to_string",
                 "to_string_lossy"}

\* C28: while a handle exists no call is made on the encoder: no second
\* handle is created, and the sections are neither read nor changed but
\* through the handle, which changes the last section only.
HandleBorrowsEncoder ==
    [][handle.live =>
         /\ call'.op \notin EncoderCalls
         /\ BeforeLastText(sections') = BeforeLastText(sections)]_vars

\* a handle wrote "a" into a new section after a body
HandleWroteAfterBody ==
    /\ handle.live
    /\ call.op = "write_str"
    /\ Len(sections) = 2
    /\ sections[1].kind = "BodyPayload"
    /\ sections[2] = Text(<<97>>)

IsUpper(ch) == ch \in 65..90

IsLower(ch) == ch \in 97..122

IsAlphanumeric(ch) == IsUpper(ch) \/ IsLower(ch) \/ ch \in 48..57

\* name is not empty, has only printable us-ascii chars that are neither
\* space nor ":", and each letter of it is uppercase if it starts a run of
\* letters and digits and lowercase if it follows a letter or a digit
WellFormedName(name) ==
    /\ Len(name) >= 1
    /\ \A i \in 1..Len(name) :
          /\ name[i] \in 33..126 /\ name[i] # 58
          /\ IsUpper(name[i]) => (i = 1 \/ ~IsAlphanumeric(name[i - 1]))
          /\ IsLower(name[i]) => (i > 1 /\ IsAlphanumeric(name[i - 1]))

\* C29: HeaderName::new accepts a name exactly when it is not empty, all
\* its chars are printable us-ascii other than space and ":", every letter
\* that starts a run of letters and digits is uppercase and every letter
\* after a letter or a digit is lowercase; every other name is refused with
\* InvalidHeaderName or RejectedHeaderNameSchema.
NameAcceptedIffWellFormed ==
    call.op = "HeaderName::new" /\ result # "Pending" =>
        /\ (result = "Ok") <=> WellFormedName(call.arg)
        /\ result \in {"Ok", "InvalidHeaderName", "RejectedHeaderNameSchema"}

\* "A3a": a lowercase letter after a digit
LowercaseAfterDigitAccepted ==
    /\ call.op = "HeaderName::new"
    /\ call.arg = <<65, 51, 97>>
    /\ result = "Ok"

\* write_char(ch) calls break_line_on_fws, which reads the byte at
\* last_fws_idx: ch is pushed on a line at the soft limit that has a fold
\* point after its start with content before it
ReadsAtFoldPoint(ch) ==
    /\ handle.live /\ ~panicked
    /\ ch \notin {CR, LF}
    /\ ~handle.skipped_cr
    /\ current_line_byte_length(Borrowed) >= LINE_LEN_SOFT_LIMIT
    /\ handle.content_before_fws
    /\ handle.last_fws_idx > handle.line_start_idx

\* C30: whenever break_line_on_fws reads the byte at last_fws_idx, the
\* index is less than the length of the buffer, and the call does not
\* panic.
FoldPointReadInBounds ==
    [][(call'.op = "write_char" /\ ReadsAtFoldPoint(call'.arg[1])) =>
            /\ handle.last_fws_idx < Len(Buffer)
            /\ result' # "Panic"]_vars

\* every "\r" of text is followed by "\n" and every "\n" follows a "\r"
Paired(text) ==
    \A i \in 1..Len(text) :
        /\ text[i] = CR => (i < Len(text) /\ text[i + 1] = LF)
        /\ text[i] = LF => (i > 1 /\ text[i - 1] = CR)

\* C31: in every reachable state, also after a write that failed, every
\* "\r" of a text section is followed by "\n" and every "\n" of it follows
\* a "\r".
NoOrphanInSections ==
    \A i \in 1..Len(sections) :
        sections[i].kind = "String" => Paired(sections[i].data)

\* "a\ra" failed on its "a" after a line "a\r\n" was written
FailedOnOrphanCr ==
    /\ call = [op |-> "write_str", arg |-> <<97, CR, 97>>]
    /\ result = "Malformed"
    /\ pre_buf = <<97, CR, LF>>
    /\ Buffer = <<97, CR, LF, 97>>

\* the bytes of buf after its last "\r\n", all of buf if it has none
LastLine(buf) == SubSeq(buf, LastLineStart(buf) + 1, Len(buf))

\* C32: in every state of a handle, current_line_byte_length() is the
\* number of bytes after the last "\r\n" of the buffer (of the whole buffer
\* if it has none) and line_has_content() is true exactly when these bytes
\* hold a char other than space and tab, also right after a soft fold.
LineFieldsMatchBuffer ==
    handle.live /\ ~panicked =>
        /\ current_line_byte_length(Borrowed) = Len(LastLine(Buffer))
        /\ line_has_content(Borrowed) <=> HasContent(LastLine(Buffer))

\* the line after a fold that inserted a space: the space and 78 'a'
SpaceCountsAfterFold ==
    /\ handle.live /\ ~panicked
    /\ result = "Ok"
    /\ Buffer = <<97, CR, LF, SP>> \o Rep(97, 78)
    /\ current_line_byte_length(Borrowed) = 79
    /\ line_has_content(Borrowed)

\* the calls on a handle that write or mark and do not end the header
InHeader == Writes \cup {"write_fws", "mark_fws_pos"}

\* C33: in every state of a handle header_start_idx <= line_start_idx <=
\* length of the buffer and last_fws_idx <= length of the buffer; no call
\* leaves the buffer shorter than header_start_idx was, and no write, fold
\* or blank line truncation changes a byte before line_start_idx.
IndicesWithinBuffer ==
    [][handle'.live =>
         /\ handle'.header_start_idx <= handle'.line_start_idx
         /\ handle'.line_start_idx <= Len(Buffer')
         /\ handle'.last_fws_idx <= Len(Buffer')
         /\ handle.live =>
              /\ Len(Buffer') >= handle.header_start_idx
              /\ call'.op \in InHeader =>
                    IsPrefix(SubSeq(Buffer, 1, handle.line_start_idx), Buffer')]_vars

\* after a fold at a space: the fold point is before the new line start
FoldPointBeforeLineStart ==
    /\ handle.live /\ ~panicked
    /\ handle.header_start_idx = 0
    /\ handle.last_fws_idx = 1
    /\ handle.line_start_idx = 3
    /\ Buffer = <<97, CR, LF, SP>> \o Rep(97, 77)

\* the handle h has a fold point marked on its current line, with content
\* before it
Foldable(h) == h.content_before_fws /\ h.last_fws_idx > h.line_start_idx

\* a write of the str s of single byte chars without "\r" and "\n", with no
\* "\r" held back and far from the hard limit
WritesPlain(s) ==
    /\ handle.live /\ ~panicked /\ ~handle.skipped_cr
    /\ Plain(s)
    /\ Len(Buffer) + Len(s) + 3 < LINE_LEN_HARD_LIMIT

\* C34: a write makes at most one soft fold, and only if a fold point is
\* marked on the current line; the fold leaves that fold point behind the
\* start of the new line, where it is not used again; with no fold point
\* on the line a write is appended as it is and without an error, however
\* long the line gets.
FoldPointUsedOnce ==
    [][(/\ call'.op \in {"write_char", "write_str", "write_str_unchecked"}
        /\ WritesPlain(call'.arg))
       => /\ Cardinality(LineStarts(Buffer'))
                <= Cardinality(LineStarts(Buffer)) + 1
          /\ LineStarts(Buffer') # LineStarts(Buffer) =>
                /\ Foldable(handle)
                /\ ~Foldable(handle')
                /\ handle'.last_fws_idx = handle.last_fws_idx
                /\ handle'.last_fws_idx < handle'.line_start_idx
          /\ ~Foldable(handle) =>
                /\ result' = "Ok"
                /\ Buffer' = Buffer \o call'.arg]_vars

\* 77 'a' were written on a line of 78 'a' with a fold point after the
\* first: one fold, and a line of 155 bytes after it
LongLineAfterFold ==
    /\ call = [op |-> "write_str", arg |-> Rep(97, 77)]
    /\ result = "Ok"
    /\ pre_buf = Rep(97, 78)
    /\ Buffer = <<97, CR, LF, SP>> \o Rep(97, 154)

\* the first char of the str s that a write finds to be an orphan
FirstOrphan(s) ==
    CHOOSE i \in Orphans(s, handle.skipped_cr) :
        \A j \in Orphans(s, handle.skipped_cr) : i <= j

\* the number of chars of the str s that a write refused at the hard limit
\* has written: the buffer has 998 bytes then, with the bytes of at most
\* one fold
WrittenBeforeLimit(s) ==
    {k \in 0..(Len(s) - 1) :
        LINE_LEN_HARD_LIMIT - Len(Buffer) - k \in {0, 2, 3}}

\* the buffer is as the write of the first k chars of s leaves it, and that
\* write succeeds
PrefixWritten(s, k) ==
    LET r == internal_write_str(Borrowed, SubSeq(s, 1, k))
    IN  r.res = "Ok" /\ Buffer' = r.e.buffer

\* C35: a write of one char that fails with Malformed or
\* HardLineLengthLimitBreached leaves the buffer as it was; a write of a str
\* that fails so leaves the buffer as the write of the chars before the
\* offending one leaves it, folds included: these chars without change if
\* they have no "\r" and "\n" and end within the soft limit.
FailedWriteKeepsPrefix ==
    [][(/\ handle.live /\ ~panicked
        /\ call'.op \in {"write_char", "write_str", "write_str_unchecked"}
        /\ result' \in {"Malformed", "HardLineLengthLimitBreached"})
       => /\ call'.op = "write_char" => Buffer' = Buffer
          /\ result' = "Malformed" =>
                LET k == FirstOrphan(call'.arg) - 1
                    prefix == SubSeq(call'.arg, 1, k)
                IN  /\ PrefixWritten(call'.arg, k)
                    /\ (/\ Plain(prefix)
                        /\ current_line_byte_length(Borrowed) + k
                                <= LINE_LEN_SOFT_LIMIT)
                        => Buffer' = Buffer \o prefix
          /\ result' = "HardLineLengthLimitBreached" =>
                /\ Len(Buffer') = LINE_LEN_HARD_LIMIT
                /\ \E k \in WrittenBeforeLimit(call'.arg) :
                        PrefixWritten(call'.arg, k)]_vars

\* the second write of 997 'a' was refused after its first 'a'
RefusedAfterFirstChar ==
    /\ call = [op |-> "write_str", arg |-> Rep(97, 997)]
    /\ result = "HardLineLengthLimitBreached"
    /\ pre_buf = Rep(97, 997)
    /\ Buffer = Rep(97, 998)

\* the calls that write the chars of their argument whatever the mail type
PlainWrites == {"write_char", "write_str", "write_str_unchecked"}

\* C36: while a "\r" is held back, every write that begins with a char
\* other than "\n" fails with Malformed and leaves the buffer and the held
\* back "\r" as they are; the "\r" is given up only by a write that begins
\* with "\n", by finish_header() and by undo_header(). A write that fails
\* on a "\n" without "\r" leaves no "\r" held back and leaves the handle as
\* the write of the chars before the "\n" leaves it.
PendingCrStaysAfterFailure ==
    [][(handle.live /\ ~panicked) =>
         /\ (/\ handle.skipped_cr
             /\ call'.op \in PlainWrites
             /\ call'.arg # <<>> /\ call'.arg[1] # LF)
                => /\ result' = "Malformed"
                   /\ handle'.skipped_cr
                   /\ Buffer' = Buffer
         /\ (handle.skipped_cr /\ ~handle'.skipped_cr)
                => \/ call'.op \in {"finish_header", "undo_header"}
                   \/ /\ call'.op \in Writes
                      /\ call'.arg # <<>> /\ call'.arg[1] = LF
         /\ (/\ call'.op \in PlainWrites
             /\ result' = "Malformed"
             /\ call'.arg[FirstOrphan(call'.arg)] = LF)
                => /\ ~handle'.skipped_cr
                   /\ handle' = Fields(internal_write_str(Borrowed,
                          SubSeq(call'.arg, 1, FirstOrphan(call'.arg) - 1)).e)]_vars

\* a third write in a row found the "\r" held back and failed
FailedAgainOnPendingCr ==
    /\ handle.live
    /\ call = [op |-> "write_char", arg |-> <<97>>]
    /\ result = "Malformed"
    /\ pre_skipped_cr /\ handle.skipped_cr
    /\ Buffer = <<>>
    /\ budget = MaxWrites - 3

\* no header is in progress: there is no handle, or the handle is at a
\* header boundary
NoHeaderInProgress ==
    ~handle.live \/ (~has_unfinished_parts(Borrowed) /\ ~handle.skipped_cr)

\* C37: whenever no header is in progress, and no handle was released with
\* unfinished parts, every text section is empty or ends in "\r\n".
TextSectionsEndInCrlf ==
    (~panicked /\ ~leaked /\ NoHeaderInProgress) =>
        \A i \in 1..Len(sections) :
            sections[i].kind = "String" =>
                sections[i].data = <<>> \/ EndsInCrlf(sections[i].data)

\* a header begun after a blank line was undone
UndoneAfterBlankLine ==
    /\ handle.live /\ ~leaked
    /\ call.op = "undo_header"
    /\ pre_buf = <<CR, LF, 97>>
    /\ sections = <<Text(<<CR, LF>>)>>

\* C38: after finish_header() and after undo_header() the handle is in the
\* state of a handle that encode_handle() creates on the buffer as it is
\* then: the line and the header start at the end of the buffer, no fold
\* point is before it, no "\r" is held back and both content flags are
\* false.
BoundaryHandleIsNew ==
    [][(handle.live /\ call'.op \in {"finish_header", "undo_header"}) =>
         /\ handle' = Fields(new(handle.mail_type, Buffer'))
         /\ handle'.line_start_idx = Len(Buffer')
         /\ handle'.last_fws_idx = Len(Buffer')
         /\ handle'.header_start_idx = Len(Buffer')
         /\ ~handle'.skipped_cr
         /\ ~handle'.content_since_fws
         /\ ~handle'.content_before_fws]_vars

\* a header with content and a "\r" held back was undone after a line
UndoneWithPendingCr ==
    /\ handle.live
    /\ call.op = "undo_header"
    /\ pre_skipped_cr
    /\ pre_buf = <<97, CR, LF, 97>>
    /\ Buffer = <<>>

\* C39: a write_str, a write_str_unchecked and, in an internationalized
\* mail, a write_utf8 of a str return what each of the others returns for
\* it and leave the buffer and the handle as each of the others leaves
\* them; write_str_unchecked makes no test of the mail type: in an Ascii
\* mail it appends the bytes of "é" on a line that needs no fold.
UncheckedWritesAlike ==
    [][(/\ handle.live /\ ~panicked
        /\ \/ call'.op \in {"write_str", "write_str_unchecked"}
           \/ call'.op = "write_utf8" /\ is_internationalized(mail_type))
       => /\ Did(write_str(Borrowed, call'.arg))
          /\ Did(write_str_unchecked(Borrowed, call'.arg))
          /\ is_internationalized(mail_type)
                => Did(write_utf8(Borrowed, call'.arg))
          /\ (/\ call'.op = "write_str_unchecked"
              /\ call'.arg = <<233>>
              /\ ~handle.skipped_cr
              /\ current_line_byte_length(Borrowed) < LINE_LEN_SOFT_LIMIT)
                => /\ result' = "Ok"
                   /\ Buffer' = Buffer \o <<195, 169>>]_vars

\* write_str_unchecked wrote "é" after "a" in an Ascii mail
UncheckedWroteNonAscii ==
    /\ mail_type = "Ascii"
    /\ call = [op |-> "write_str_unchecked", arg |-> <<233>>]
    /\ result = "Ok"
    /\ Buffer = <<97, 195, 169>>

\* every body of secs can be read and is UTF-8
AllUtf8(secs) ==
    \A i \in 1..Len(secs) :
        secs[i].kind = "BodyPayload" =>
            /\ secs[i].data.available
            /\ from_utf8_is_ok(secs[i].data.slice, 1)

\* C40: for sections whose bodies can all be read and are UTF-8,
\* to_string() and to_string_lossy() return the bytes that to_vec()
\* returns, with "\r\n" after the same bodies.
StringsEqualVec ==
    [][(call'.op \in {"to_string", "to_string_lossy"} /\ AllUtf8(sections))
       => /\ result' = "Ok"
          /\ to_vec(sections).res = "Ok"
          /\ out' = to_vec(sections).out
          /\ out' = Concatenated(sections)]_vars

\* to_string_lossy() of the bodies "é" and "a\r\n"
LossyStringOfTwoBodies ==
    /\ call.op = "to_string_lossy"
    /\ added = <<VecBodyBuf(<<195, 169>>), VecBodyBuf(<<97, CR, LF>>)>>
    /\ Len(sections) = 2
    /\ out = <<195, 169, CR, LF, 97, CR, LF>>

====
